---- MODULE Spec2Model ----
(***************************************************************************)
(* Bell app (src/src/App.tsx): a MotionDetector that turns device motion  *)
(* samples into shake callbacks, a BellAudio player with a lazily loaded  *)
(* (or synthesized) buffer and a playback rate limit, and the App's       *)
(* ringBell fan-out (audio, swing class, ripple token, vibration).        *)
(*                                                                         *)
(* Time is in milliseconds.  Date.now() is modelled by the variable now,  *)
(* which starts at PageLoadTime and advances in the steps of ClockSteps    *)
(* while input arrives, and to the due time of the next timer once the    *)
(* input has stopped and every pending call of the platform has settled.  *)
(* A setTimeout timer fires when now equals its due                       *)
(* time, and timers fire in the order of their due times and, among equal *)
(* due times, of their creation: the timers are a queue.                  *)
(*                                                                         *)
(* Intensities are rationals; an intensity i/ShakeNorm is represented by  *)
(* its numerator i (so 0.7 is 35 and 1 is 50).  A gain is represented in  *)
(* units of 1/(10 * ShakeNorm).                                            *)
(***************************************************************************)
EXTENDS Integers, Sequences, FiniteSets, TLC

\* ---------------------------------------------------------------- bounds
PageLoadTime == 1000      \* value of Date.now() when the page is mounted
MaxRings == 2             \* ringBell invocations in one behaviour
MaxPermissionRequests == 1 \* requestPermission() calls awaiting an answer
ActiveWindow == 150       \* user input and the platform's answers arrive in
                          \* the first ActiveWindow ms; then only timers fire

\* the steps of the clock while input arrives: two events are 0, 1, 100 or
\* 101 ms apart, on both sides of the two 100 ms intervals and on them
ClockSteps == {100, 101}

\* ------------------------------------------------------ program constants
minInterval == 100
threshold == 10
shakeInterval == 100
ShakeNorm == 50
SwingLifetime == 1000
RippleLifetime == 1000

\* a nullable number is <<>> (null) or <<n>>
Null == <<>>
Num(n) == <<n>>

\* accelerationIncludingGravity readings (x, y, z) delivered by the platform;
\* a component may be null
Samples ==
  { <<Num(0), Num(0), Num(0)>>, <<Num(10), Num(0), Num(0)>>,
    <<Num(0), Num(15), Num(0)>>, <<Null, Num(0), Num(500)>> }

\* the platforms the page runs on: with or without
\* DeviceMotionEvent.requestPermission, with or without navigator.vibrate,
\* and the sample rate of the audio hardware
Platforms ==
  { [ios |-> TRUE,  vibrate |-> FALSE, sampleRate |-> 48000],
    [ios |-> FALSE, vibrate |-> TRUE,  sampleRate |-> 44100] }

SwingClasses == {"swing-light", "swing-medium", "swing-heavy", "swing-intense"}

VARIABLES
  now,               \* Date.now()
  platform,          \* element of Platforms
  \* MotionDetector
  lastX, lastY, lastZ, lastShakeTime, permissionGranted,
  listeners,         \* number of devicemotion listeners registered by start()
  \* consent flow
  needsPermission, instructions,
  consent,           \* the platform's consent state: unasked, granted, denied
  pendingPermission, \* requestPermission() calls awaiting the platform
  \* BellAudio
  context,           \* this.context: NoContext or [id, state]
  contextsCreated,   \* AudioContext objects constructed so far
  initCalls,         \* calls of init() so far
  buffer,            \* this.buffer: NoBuffer or [kind, length]
  bufferWrites,      \* number of assignments to this.buffer
  loaded, lastPlayTime,
  audioInitialized,  \* the App's audioInitialized ref
  \* ringBell invocations, in order of invocation
  rings,
  pendingPlays,      \* play() calls awaiting context.resume()
  started,           \* sources started by source.start(0), in order
  \* visuals and haptics
  swing,             \* swing classes in the bell element's classList
  ripples,           \* the ripples state: sequence of token ids
  timers,            \* pending setTimeout callbacks of swingBell and
                     \* createRipple, in the order they fire
  vibrations,        \* navigator.vibrate calls
  uncaught           \* an exception escaped ringBell to its caller

detectorVars == <<lastX, lastY, lastZ, lastShakeTime, permissionGranted, listeners>>
consentVars == <<needsPermission, instructions, consent, pendingPermission>>
audioVars == <<context, contextsCreated, initCalls, buffer, bufferWrites, loaded,
               lastPlayTime, audioInitialized>>
ringVars == <<rings, pendingPlays, started>>
visualVars == <<swing, ripples, timers, vibrations, uncaught>>

vars == <<now, platform, detectorVars, consentVars, audioVars, ringVars, visualVars>>

\* --------------------------------------------------------- pure functions
Abs(n) == IF n < 0 THEN -n ELSE n

Min(a, b) == IF a < b THEN a ELSE b

\* acc.x || 0
OrZero(v) == IF v = Null THEN 0 ELSE v[1]

\* delta = |x - lastX| + |y - lastY| + |z - lastZ|
Delta(x, y, z, lx, ly, lz) == Abs(x - lx) + Abs(y - ly) + Abs(z - lz)

\* delta > this.threshold && now - this.lastShakeTime > this.shakeInterval
ShakeDetected(delta, t, lastShake) ==
  delta > threshold /\ t - lastShake > shakeInterval

\* variant: the intensity without the clamp
IntensityUnclamped(delta) == delta

\* Math.min(delta / 50, 1), as a numerator over ShakeNorm
Intensity(delta) == Min(delta, ShakeNorm)

\* the intensity of a tap, 0.7
TapIntensity == (7 * ShakeNorm) \div 10

\* variant: the thresholds compared with >= instead of >
SwingClassInclusive(intensity) ==
  IF intensity * 10 >= 7 * ShakeNorm THEN "swing-intense"
  ELSE IF intensity * 10 >= 5 * ShakeNorm THEN "swing-heavy"
  ELSE IF intensity * 10 >= 3 * ShakeNorm THEN "swing-medium"
  ELSE "swing-light"

\* the swing class chosen by swingBell
SwingClass(intensity) ==
  IF intensity * 10 > 7 * ShakeNorm THEN "swing-intense"
  ELSE IF intensity * 10 > 5 * ShakeNorm THEN "swing-heavy"
  ELSE IF intensity * 10 > 3 * ShakeNorm THEN "swing-medium"
  ELSE "swing-light"

\* variant: the gain is the intensity itself
VolumeUnscaled(intensity) == Min(10 * intensity, 10 * ShakeNorm)

\* Math.min(0.3 + intensity * 0.7, 1.0), in units of 1/(10 * ShakeNorm)
Volume(intensity) == Min(3 * ShakeNorm + 7 * intensity, 10 * ShakeNorm)

\* the first return of play(): nothing to play
NotReady(isLoaded, buf, ctx) ==
  ~isLoaded \/ buf.kind = "null" \/ ctx.state = "null"

\* the second return of play(): now - this.lastPlayTime < this.minInterval
RateLimited(t, lastPlay) == t - lastPlay < minInterval

\* the guard of start(): if (!this.permissionGranted) return
StartRegisters(granted) == granted

\* start(): the number of listeners after a call with n registered
Start(granted, n) == IF StartRegisters(granted) THEN n + 1 ELSE n

\* variant: any answer of the platform counts as consent
PermissionResultAny(answer) == TRUE

\* this.permissionGranted = permission === 'granted'
PermissionResult(answer) == answer = "granted"

\* variant: the z reading is stored only when the callback fires
MotionHandlerOnFire(det, fires, x, y, z, t) ==
  LET delta == Delta(OrZero(x), OrZero(y), OrZero(z), det.x, det.y, det.z)
      hit == ShakeDetected(delta, t, det.shake)
  IN [det |-> [x |-> OrZero(x), y |-> OrZero(y),
               z |-> IF hit THEN OrZero(z) ELSE det.z,
               shake |-> IF hit THEN t ELSE det.shake],
      fires |-> IF hit THEN Append(fires, Intensity(delta)) ELSE fires]

\* one run of the devicemotion listener on the reading (x, y, z) at time t;
\* det is [x, y, z, shake] (lastX, lastY, lastZ, lastShakeTime) and fires is
\* the sequence of intensities passed to the callback so far
MotionHandler(det, fires, x, y, z, t) ==
  LET delta == Delta(OrZero(x), OrZero(y), OrZero(z), det.x, det.y, det.z)
      hit == ShakeDetected(delta, t, det.shake)
  IN [det |-> [x |-> OrZero(x), y |-> OrZero(y), z |-> OrZero(z),
               shake |-> IF hit THEN t ELSE det.shake],
      fires |-> IF hit THEN Append(fires, Intensity(delta)) ELSE fires]

\* the dispatch of one devicemotion event to n registered listeners
RECURSIVE Dispatch(_, _, _, _, _, _, _)
Dispatch(n, det, fires, x, y, z, t) ==
  IF n = 0 THEN [det |-> det, fires |-> fires]
  ELSE LET h == MotionHandler(det, fires, x, y, z, t)
       IN Dispatch(n - 1, h.det, h.fires, x, y, z, t)

\* sampleRate * duration with duration = 2.5
FallbackLength(sampleRate) == (sampleRate * 25) \div 10

NoContext == [id |-> 0, state |-> "null"]

NoBuffer == [kind |-> "null", length |-> 0]

\* the buffer made by generateFallbackSound
FallbackBuffer ==
  [kind |-> "synth", length |-> FallbackLength(platform.sampleRate)]

\* the buffer decoded from /bell.mp3; its length is the asset's and is not
\* modelled
DecodedBuffer == [kind |-> "decoded", length |-> 0]

\* ------------------------------------------------------------------ Init
\* the state after the mount effect (useEffect, checkPermission): where
\* requestPermission exists the consent button is shown, elsewhere the
\* detector is granted and started at once
Init ==
  /\ now = PageLoadTime
  /\ platform \in Platforms
  /\ lastX = 0 /\ lastY = 0 /\ lastZ = 0
  /\ lastShakeTime = 0
  /\ permissionGranted = ~platform.ios
  /\ listeners = IF platform.ios THEN 0 ELSE Start(TRUE, 0)
  /\ needsPermission = platform.ios
  /\ instructions = "Shake to Ring"
  /\ consent = "unasked"
  /\ pendingPermission = 0
  /\ context = NoContext
  /\ contextsCreated = 0
  /\ initCalls = 0
  /\ buffer = NoBuffer
  /\ bufferWrites = 0
  /\ loaded = FALSE
  /\ lastPlayTime = 0
  /\ audioInitialized = FALSE
  /\ rings = <<>>
  /\ pendingPlays = {}
  /\ started = <<>>
  /\ swing = {}
  /\ ripples = <<>>
  /\ timers = <<>>
  /\ vibrations = 0
  /\ uncaught = FALSE

\* input still arrives
Active == now <= PageLoadTime + ActiveWindow

\* ------------------------------------------------------- ringBell's parts
\* source.start(0) on a source made from this.buffer, or an exception caught
\* by play()
StartSource(r, intensity, buf, ok) ==
  started' = IF ok
             THEN Append(started, [ring |-> r, at |-> now, buffer |-> buf,
                                   volume |-> Volume(intensity)])
             ELSE started

\* BellAudio.play up to its first await; ld, buf, ctx are the values of
\* loaded, buffer and context at the call.  The outcome is recorded in out.
Play(r, intensity, ld, buf, ctx, out) ==
  IF NotReady(ld, buf, ctx)
  THEN /\ out = "notready"
       /\ UNCHANGED <<lastPlayTime, pendingPlays, started>>
  ELSE IF RateLimited(now, lastPlayTime)
  THEN /\ out = "ratelimited"
       /\ UNCHANGED <<lastPlayTime, pendingPlays, started>>
  ELSE /\ lastPlayTime' = now
       /\ IF ctx.state = "suspended"
          THEN /\ out = "awaiting"
               /\ pendingPlays' = pendingPlays \cup
                     {[ring |-> r, intensity |-> intensity, ctx |-> ctx.id]}
               /\ UNCHANGED started
          ELSE /\ out \in {"started", "threw"}
               /\ StartSource(r, intensity, buf, out = "started")
               /\ UNCHANGED pendingPlays

\* variant: swingBell without classList.remove
SwingBellKeep(classes, intensity) == classes \cup {SwingClass(intensity)}

\* swingBell(intensity): the class list after the call, and its timer.
\* (bellSvgRef.current is set once the component is mounted.)
SwingBell(classes, intensity) ==
  (classes \ SwingClasses) \cup {SwingClass(intensity)}

SwingTimer(r, intensity) ==
  [kind |-> "swing", ring |-> r, class |-> SwingClass(intensity), id |-> 0,
   due |-> now + SwingLifetime]

\* createRipple(): the ripples after the call, and its timer
CreateRipple(prev) == Append(prev, now)

RippleTimer(r) ==
  [kind |-> "ripple", ring |-> r, class |-> "", id |-> now,
   due |-> now + RippleLifetime]

\* if ('vibrate' in navigator) navigator.vibrate([50])
Vibrate ==
  vibrations' = IF platform.vibrate THEN vibrations + 1 ELSE vibrations

\* the effects of one ringBell invocation besides the sound
AllEffects ==
  {"swing", "ripple"} \cup (IF platform.vibrate THEN {"vibrate"} ELSE {})

\* the effects ringBell runs once the audio is initialised, in order:
\* play (not awaited), swingBell, createRipple, vibrate
RingEffects(r, intensity, ld, buf, ctx, out) ==
  /\ Play(r, intensity, ld, buf, ctx, out)
  /\ swing' = SwingBell(swing, intensity)
  /\ ripples' = CreateRipple(ripples)
  /\ timers' = timers \o <<SwingTimer(r, intensity), RippleTimer(r)>>
  /\ Vibrate
  /\ UNCHANGED uncaught

\* variant: init() without its try/catch
InitRethrows(threw) == threw

\* init() with a failing AudioContext constructor: the try/catch of init()
\* logs the exception, the promise of init() does not reject
InitRejects(threw) == FALSE

AudioOutcomes == {"notready", "ratelimited", "awaiting", "started", "threw"}

\* the record of a ringBell invocation: its trigger (src, intensity, the
\* time at), where it stands (pc: loading, done or rejected), what its
\* play() did (audio) and the effects it has run (fx)
NewRing(src, intensity, pc, out, fx) ==
  [src |-> src, intensity |-> intensity, at |-> now,
   pc |-> pc, audio |-> out, fx |-> fx]

\* ringBell(intensity) up to its first await.  With the audio initialised it
\* runs to its end.  Otherwise it calls init(): the AudioContext is
\* constructed and the load of the sound is left pending, or the constructor
\* throws, init() ends and ringBell goes on within the same task.
RingBell(src, intensity) ==
  /\ Len(rings) < MaxRings
  /\ Active
  /\ LET r == Len(rings) + 1 IN
     IF audioInitialized
     THEN \E out \in AudioOutcomes :
            /\ RingEffects(r, intensity, loaded, buffer, context, out)
            /\ rings' = Append(rings,
                 NewRing(src, intensity, "done", out, AllEffects))
            /\ UNCHANGED <<context, contextsCreated, initCalls, buffer,
                           bufferWrites, loaded, audioInitialized>>
     ELSE /\ initCalls' = initCalls + 1
          /\ \/ \E st \in (IF src = "tap" THEN {"running"}
                            ELSE {"running", "suspended"}) :
                  /\ context' = [id |-> contextsCreated + 1, state |-> st]
                  /\ contextsCreated' = contextsCreated + 1
                  /\ rings' = Append(rings,
                       NewRing(src, intensity, "loading", "none", {}))
                  /\ UNCHANGED <<buffer, bufferWrites, loaded, lastPlayTime,
                                 audioInitialized, pendingPlays, started,
                                 visualVars>>
             \/ IF InitRejects(TRUE)
                THEN /\ uncaught' = TRUE
                     /\ rings' = Append(rings,
                          NewRing(src, intensity, "rejected", "none", {}))
                     /\ UNCHANGED <<context, contextsCreated, buffer,
                                    bufferWrites, loaded, lastPlayTime,
                                    audioInitialized, pendingPlays, started,
                                    swing, ripples, timers, vibrations>>
                ELSE \E out \in AudioOutcomes :
                       /\ audioInitialized' = TRUE
                       /\ RingEffects(r, intensity, loaded, buffer, context, out)
                       /\ rings' = Append(rings,
                            NewRing(src, intensity, "done", out, AllEffects))
                       /\ UNCHANGED <<context, contextsCreated, buffer,
                                      bufferWrites, loaded>>

\* the end of init() in the ringBell invocation r and the rest of ringBell,
\* which runs in the same task: loadSound has assigned buf to this.buffer,
\* then this.loaded = true, audioInitialized.current = true and the effects
FinishInit(r, buf) ==
  \E out \in AudioOutcomes :
    /\ buffer' = buf
    /\ bufferWrites' = bufferWrites + 1
    /\ loaded' = TRUE
    /\ audioInitialized' = TRUE
    /\ RingEffects(r, rings[r].intensity, TRUE, buf, context, out)
    /\ rings' = [rings EXCEPT ![r].pc = "done", ![r].audio = out,
                              ![r].fx = AllEffects]
    /\ UNCHANGED <<context, contextsCreated, initCalls>>

\* ---------------------------------------------------------------- actions
\* onClick of the bell: ringBell(0.7)
Tap ==
  /\ RingBell("tap", TapIntensity)
  /\ UNCHANGED <<now, platform, detectorVars, consentVars>>

\* a devicemotion event with the reading s; a firing listener calls
\* ringBell(intensity).  Every listener after the first sees the reading it
\* is given already stored in lastX, lastY, lastZ, so at most one fires.
Motion(s) ==
  /\ Active
  /\ LET d == Dispatch(listeners,
                       [x |-> lastX, y |-> lastY, z |-> lastZ,
                        shake |-> lastShakeTime],
                       <<>>, s[1], s[2], s[3], now)
     IN /\ lastX' = d.det.x
        /\ lastY' = d.det.y
        /\ lastZ' = d.det.z
        /\ lastShakeTime' = d.det.shake
        /\ IF d.fires = <<>>
           THEN UNCHANGED <<audioVars, ringVars, visualVars>>
           ELSE RingBell("shake", Head(d.fires))
  /\ UNCHANGED <<now, platform, permissionGranted, listeners, consentVars>>

\* onClick of the Enable Motion button, up to the await of requestPermission()
EnableMotion ==
  /\ Active
  /\ needsPermission
  /\ pendingPermission < MaxPermissionRequests
  /\ pendingPermission' = pendingPermission + 1
  /\ UNCHANGED <<now, platform, detectorVars, needsPermission, instructions,
                 consent, audioVars, ringVars, visualVars>>

\* the answers the platform can give: a consent once given or refused is
\* remembered for the page
Answers ==
  IF consent = "granted" THEN {"granted"}
  ELSE IF consent = "denied" THEN {"denied"}
  ELSE {"granted", "denied", "throws"}

\* the platform answers a requestPermission() call; the rest of
\* requestPermission and of handleEnableMotion runs
PermissionAnswered(answer) ==
  /\ Active
  /\ pendingPermission > 0
  /\ answer \in Answers
  /\ pendingPermission' = pendingPermission - 1
  /\ consent' = IF answer = "throws" THEN consent ELSE answer
  /\ permissionGranted' = IF answer = "throws" THEN permissionGranted
                          ELSE PermissionResult(answer)
  /\ LET granted == IF answer = "throws" THEN FALSE ELSE permissionGranted'
     IN IF granted
        THEN /\ listeners' = Start(permissionGranted', listeners)
             /\ instructions' = "Tap or shake to ring the bell"
        ELSE /\ listeners' = listeners
             /\ instructions' = "Tap to ring the bell"
  /\ needsPermission' = FALSE
  /\ UNCHANGED <<now, platform, lastX, lastY, lastZ, lastShakeTime,
                 audioVars, ringVars, visualVars>>

\* the asynchronous part of loadSound in invocation r settles: the fetch,
\* the read of the body and decodeAudioData have all succeeded and the
\* decoded buffer is assigned, or one of them has failed (fetch rejected,
\* response not ok, decode rejected) and the fallback sound is generated;
\* then init() ends
LoadSettled(r, ok) ==
  /\ Active
  /\ r \in 1..Len(rings)
  /\ rings[r].pc = "loading"
  /\ FinishInit(r, IF ok THEN DecodedBuffer ELSE FallbackBuffer)
  /\ UNCHANGED <<now, platform, detectorVars, consentVars>>

\* context.resume() awaited by a play() settles: the source is created from
\* this.buffer and started, or an exception is caught
ResumeSettled(p, ok) ==
  /\ Active
  /\ p \in pendingPlays
  /\ pendingPlays' = pendingPlays \ {p}
  /\ context' = IF ok /\ context.id = p.ctx
                THEN [context EXCEPT !.state = "running"] ELSE context
  /\ \E startOk \in BOOLEAN :
       /\ ~ok => ~startOk
       /\ StartSource(p.ring, p.intensity, buffer, startOk)
       /\ rings' = [rings EXCEPT ![p.ring].audio =
                      IF startOk THEN "started" ELSE "threw"]
  /\ UNCHANGED <<now, platform, detectorVars, consentVars, contextsCreated,
                 initCalls, buffer, bufferWrites, loaded, lastPlayTime, audioInitialized,
                 visualVars>>

\* variant: the filter keeps every token
WithoutIdNone(prev, id) == prev

\* variant: the filter drops every token
WithoutIdAll(prev, id) == <<>>

\* prev.filter(r => r.id !== id)
WithoutId(prev, id) == SelectSeq(prev, LAMBDA e : e # id)

\* time passes while input arrives
Advance(d) ==
  /\ now + d <= PageLoadTime + ActiveWindow
  /\ \A i \in 1..Len(timers) : timers[i].due >= now + d
  /\ now' = now + d
  /\ UNCHANGED <<platform, detectorVars, consentVars, audioVars, ringVars,
                 visualVars>>

\* the platform has answered every call awaited by the page
Settled ==
  /\ pendingPlays = {}
  /\ pendingPermission = 0
  /\ \A i \in 1..Len(rings) : rings[i].pc # "loading"

\* the next timer fires at its due time (once the input has stopped and the
\* platform has answered, time passes up to that due time): the callback of
\* swingBell removes its class, the callback of createRipple filters its id
\* out
TimerFires ==
  /\ timers # <<>>
  /\ Settled
  /\ LET t == Head(timers) IN
       /\ t.due = now \/ (\A d \in ClockSteps : now + d > PageLoadTime + ActiveWindow)
       /\ now' = t.due
       /\ swing' = IF t.kind = "swing" THEN swing \ {t.class} ELSE swing
       /\ ripples' = IF t.kind = "ripple" THEN WithoutId(ripples, t.id)
                     ELSE ripples
       /\ timers' = Tail(timers)
  /\ UNCHANGED <<platform, detectorVars, consentVars, audioVars, ringVars,
                 vibrations, uncaught>>

Next ==
  \/ Tap
  \/ \E s \in Samples : Motion(s)
  \/ EnableMotion
  \/ \E a \in {"granted", "denied", "throws"} : PermissionAnswered(a)
  \/ \E r \in 1..MaxRings, ok \in BOOLEAN : LoadSettled(r, ok)
  \/ \E p \in pendingPlays, ok \in BOOLEAN : ResumeSettled(p, ok)
  \/ \E d \in ClockSteps : Advance(d)
  \/ TimerFires

Spec == Init /\ [][Next]_vars

\* the event loop goes on: time passes, a due timer fires, and the platform
\* settles every call the page awaits (load, resume, consent)
FairSpec ==
  /\ Spec
  /\ WF_vars(\E d \in ClockSteps : Advance(d))
  /\ WF_vars(TimerFires)
  /\ WF_vars(\E r \in 1..MaxRings, ok \in BOOLEAN : LoadSettled(r, ok))
  /\ WF_vars(\E p \in pendingPlays, ok \in BOOLEAN : ResumeSettled(p, ok))
  /\ WF_vars(\E a \in {"granted", "denied", "throws"} : PermissionAnswered(a))

\* ----------------------------------------------------------------- claims
RingIds == 1..Len(rings)

TimerIds == 1..Len(timers)

Range(f) == {f[i] : i \in DOMAIN f}

\* the delta the listener computes for the reading s in the current state
SampleDelta(s) ==
  Delta(OrZero(s[1]), OrZero(s[2]), OrZero(s[3]), lastX, lastY, lastZ)

\* the step appends a ringBell invocation
RingArrives == Len(rings') = Len(rings) + 1

\* the sources started for the invocation r
StartsOf(r) == {i \in 1..Len(started) : started[i].ring = r}

\* the ripple token of the invocation r is in the active set
TokenPresent(r) ==
  \E i \in TimerIds :
    /\ timers[i].kind = "ripple"
    /\ timers[i].ring = r
    /\ timers[i].id \in Range(ripples)

\* C1: on every motion sample delivered to a started detector the callback
\* fires if and only if the sample's delta exceeds the threshold and at
\* least shakeInterval ms have passed since the previous fire; a sample
\* with delta > threshold exactly shakeInterval ms after the previous fire
\* fires.
C1_FiresAtLeastIntervalApart ==
  [][\A s \in Samples :
       (listeners > 0 /\ Motion(s)) =>
         (RingArrives <=>
            (SampleDelta(s) > threshold /\ now - lastShakeTime >= shakeInterval))]_vars

\* C2: two ringBell calls less than minInterval ms apart, the second of
\* which may arrive while the load started by the first is pending, result
\* in exactly one started source (stated for calls that have run to their
\* end on a loaded player without a playback exception).
C2_OnePlaybackForCloseRings ==
  \A r1 \in RingIds, r2 \in RingIds :
    ( /\ r1 < r2
      /\ rings[r2].at - rings[r1].at < minInterval
      /\ loaded
      /\ rings[r1].pc = "done" /\ rings[r2].pc = "done"
      /\ rings[r1].audio \in {"started", "ratelimited", "notready"}
      /\ rings[r2].audio \in {"started", "ratelimited", "notready"} )
    => Cardinality(StartsOf(r1) \cup StartsOf(r2)) = 1

\* C3: init() runs at most once, and this.buffer is assigned at most once,
\* whatever the sequence of ringBell calls.
C3_InitAndBufferOnce == initCalls <= 1 /\ bufferWrites <= 1

\* C4: a ringBell call that arrives while the sound load is pending is
\* ignored by the not-loaded check of play(): it runs to its end at once
\* without a playback, and neither waits for the load nor starts another.
C4_RingDuringLoadIgnored ==
  [][(RingArrives /\ \E i \in RingIds : rings[i].pc = "loading") =>
       /\ rings'[Len(rings')].pc = "done"
       /\ rings'[Len(rings')].audio = "notready"
       /\ initCalls' = initCalls
       /\ started' = started]_vars

\* C5: the ripple token of every ringBell call is in the active set from the
\* moment of the trigger, also when the audio still has to be loaded, until
\* RippleLifetime ms after the trigger, and is absent after that.
C5_RippleFromTrigger ==
  \A r \in RingIds :
    /\ now < rings[r].at + RippleLifetime => TokenPresent(r)
    /\ now > rings[r].at + RippleLifetime => ~TokenPresent(r)

\* C6: a listener is registered and a shake reaches ringBell only with
\* permissionGranted true: without consent (before the request, after a
\* denial or a failed request) start() registers nothing and no ringBell
\* call comes from a shake, while a tap still calls ringBell(0.7).
C6_ShakeOnlyWithConsent ==
  /\ listeners > 0 => permissionGranted
  /\ (platform.ios /\ consent # "granted") => ~permissionGranted
  /\ ~permissionGranted =>
       /\ Start(permissionGranted, listeners) = listeners
       /\ listeners = 0
       /\ \A r \in RingIds : rings[r].src = "tap"
  /\ \A r \in RingIds :
       rings[r].src = "tap" => rings[r].intensity * 10 = 7 * ShakeNorm

\* the consent was denied and a tap has rung the bell
C6_Witness ==
  /\ consent = "denied" /\ ~needsPermission /\ ~permissionGranted
  /\ instructions = "Tap to ring the bell"
  /\ \E r \in RingIds : rings[r].src = "tap" /\ rings[r].pc = "done"

\* C7: when the sound cannot be loaded, init() ends with loaded = true and
\* the synthesized buffer of 2.5 s * sampleRate samples in this.buffer, and
\* the ringBell call that started the load goes on to play it (its play()
\* is stopped neither by the loaded check nor by the rate limit).
C7_FallbackPlayed ==
  [][\A r \in RingIds :
       LoadSettled(r, FALSE) =>
         /\ loaded'
         /\ buffer'.kind = "synth"
         /\ buffer'.length * 10 = 25 * platform.sampleRate
         /\ rings'[r].audio \in {"started", "awaiting", "threw"}]_vars

\* C8: every ringBell call that has run to its end has run swingBell,
\* createRipple and, where supported, vibrate, whatever its play() did, and
\* no ringBell call has ended with an exception.  While no timer has fired
\* its swing timer, its ripple timer and its token are there.
C8_EffectsWhateverAudio ==
  /\ ~uncaught
  /\ vibrations = IF platform.vibrate
                  THEN Cardinality({r \in RingIds : rings[r].pc = "done"})
                  ELSE 0
  /\ \A r \in RingIds :
       /\ rings[r].pc \in {"loading", "done"}
       /\ rings[r].pc = "done" =>
            /\ rings[r].fx = {"swing", "ripple"} \cup
                              (IF platform.vibrate THEN {"vibrate"} ELSE {})
            /\ Len(timers) = 2 * Cardinality({q \in RingIds : rings[q].pc = "done"}) =>
                 /\ TokenPresent(r)
                 /\ \E i \in TimerIds :
                      timers[i].kind = "swing" /\ timers[i].ring = r
                 /\ swing # {}

\* a playback exception and a rate-limited call, both with their effects
C8_Witness ==
  \E r1 \in RingIds, r2 \in RingIds :
    /\ rings[r1].audio = "threw" /\ rings[r1].fx = AllEffects
    /\ rings[r2].audio = "ratelimited" /\ rings[r2].fx = AllEffects
    /\ TokenPresent(r1) /\ TokenPresent(r2)

\* C9: the intensity passed to the callback is min(delta/50, 1): it is in
\* [0, 1] for every reading, 1 for a delta of 500, and above 0.2 whenever
\* the callback fires.
C9_IntensityClamped ==
  /\ \A s \in Samples :
       LET d == SampleDelta(s) IN
         /\ 0 <= Intensity(d) /\ Intensity(d) <= ShakeNorm
         /\ d >= ShakeNorm => Intensity(d) = ShakeNorm
         /\ d < ShakeNorm => Intensity(d) = d
         /\ ShakeDetected(d, now, lastShakeTime) => 5 * Intensity(d) > ShakeNorm
  /\ Intensity(500) = ShakeNorm
  /\ \A r \in RingIds :
       rings[r].src = "shake" =>
         /\ 0 <= rings[r].intensity /\ rings[r].intensity <= ShakeNorm
         /\ 5 * rings[r].intensity > ShakeNorm

\* a shake with a delta of 500 or more was delivered with intensity 1
C9_Witness ==
  /\ lastZ = 500
  /\ \E r \in RingIds :
       /\ rings[r].src = "shake" /\ rings[r].at = lastShakeTime
       /\ rings[r].intensity = ShakeNorm

\* the class the claim gives for an intensity
ClaimedClass(intensity) ==
  IF 10 * intensity <= 3 * ShakeNorm THEN "swing-light"
  ELSE IF 10 * intensity <= 5 * ShakeNorm THEN "swing-medium"
  ELSE IF 10 * intensity <= 7 * ShakeNorm THEN "swing-heavy"
  ELSE "swing-intense"

\* C10: swingBell adds one swing class, chosen by the intensity alone:
\* light up to 0.3, medium up to 0.5, heavy up to 0.7, intense above; so
\* 0.2, 0.4, 0.6, 0.9 give light, medium, heavy, intense and a tap (0.7)
\* gives heavy.
C10_SwingClassByIntensity ==
  /\ \A i \in TimerIds :
       timers[i].kind = "swing" =>
         /\ timers[i].class = ClaimedClass(rings[timers[i].ring].intensity)
         /\ timers[i].class \in SwingClasses
  /\ \A r \in RingIds :
       SwingBell(swing, rings[r].intensity) =
         {ClaimedClass(rings[r].intensity)}
  /\ SwingClass(ShakeNorm \div 5) = "swing-light"
  /\ SwingClass((2 * ShakeNorm) \div 5) = "swing-medium"
  /\ SwingClass((3 * ShakeNorm) \div 5) = "swing-heavy"
  /\ SwingClass((9 * ShakeNorm) \div 10) = "swing-intense"
  /\ SwingClass(TapIntensity) = "swing-heavy"

\* a tap has swung the bell heavy and a shake of intensity 0.5 medium
C10_Witness ==
  \E i \in TimerIds, j \in TimerIds :
    /\ timers[i].kind = "swing" /\ timers[i].class = "swing-heavy"
    /\ rings[timers[i].ring].src = "tap"
    /\ timers[j].kind = "swing" /\ timers[j].class = "swing-medium"
    /\ 2 * rings[timers[j].ring].intensity = ShakeNorm

\* C11: a play() call less than minInterval ms after the last accepted one
\* starts no source and keeps lastPlayTime; hence any two sources started
\* are started at least minInterval ms apart, also when play() has to await
\* context.resume().
C11_StartsIntervalApart ==
  /\ \A r \in RingIds :
       rings[r].audio = "ratelimited" =>
         StartsOf(r) = {}
  /\ \A i \in 1..Len(started), j \in 1..Len(started) :
       i < j => started[j].at - started[i].at >= minInterval

\* the swing timers pending after the one at position i
LaterSwingTimers(i) ==
  {j \in TimerIds : j > i /\ timers[j].kind = "swing"}

\* C12: the class selected by a swing trigger stays on the bell element
\* for SwingLifetime ms from that trigger, also when the timer of an earlier
\* trigger is pending at the trigger (stated for the latest trigger, whose
\* class no later swingBell call replaces), and is removed then.
C12_SwingClassStaysLifetime ==
  /\ \A i \in TimerIds :
       ( /\ timers[i].kind = "swing"
         /\ LaterSwingTimers(i) = {}
         /\ now < timers[i].due )
       => timers[i].class \in swing
  /\ (\A i \in TimerIds : timers[i].kind # "swing") => swing = {}

\* C13: every motion sample handled by the listener stores its reading in
\* lastX, lastY, lastZ whether or not the callback fires, and a sample that
\* does not fire leaves lastShakeTime unchanged; the callback fires on the
\* delta against the sample stored just before.
C13_LastReadingAlwaysStored ==
  [][\A s \in Samples :
       (listeners > 0 /\ Motion(s)) =>
         /\ lastX' = OrZero(s[1])
         /\ lastY' = OrZero(s[2])
         /\ lastZ' = OrZero(s[3])
         /\ ~RingArrives => lastShakeTime' = lastShakeTime
         /\ RingArrives => lastShakeTime' = now
         /\ RingArrives <=>
              ShakeDetected(SampleDelta(s), now, lastShakeTime)]_vars

\* a reading below the threshold was stored without any fire, and one was
\* stored while the interval suppressed the callback
C13_Witness ==
  /\ listeners > 0
  /\ lastX = 10 /\ lastY = 0 /\ lastZ = 0
  /\ \E r \in RingIds : rings[r].src = "shake" /\ rings[r].at = lastShakeTime
  /\ \A r \in RingIds : rings[r].src = "shake" => rings[r].intensity = ShakeNorm

\* no timer pending, no ripple token, no swing class
Idle == timers = <<>> /\ ripples = <<>> /\ swing = {}

\* C14: once the triggers have stopped every pending timer fires and the
\* page is idle again: no ripple token and no swing class, for any number
\* and overlap of the triggers.
C14_ReturnsToIdle == <>[]Idle

\* two overlapping triggers have run and the page is idle again
C14_Witness ==
  /\ Idle
  /\ Len(rings) >= 2
  /\ \A r \in RingIds : rings[r].pc = "done"
  /\ \E r1 \in RingIds, r2 \in RingIds : rings[r1].at < rings[r2].at
  /\ now >= PageLoadTime + RippleLifetime

\* the number of tokens with the id e in the sequence f
Count(f, e) == Cardinality({i \in DOMAIN f : f[i] = e})

\* C15: the expiry timer of a ripple removes the tokens with its own id and
\* no other token; with its id absent it leaves the ripples unchanged.
C15_ExpiryRemovesOwnIdOnly ==
  [][(TimerFires /\ Head(timers).kind = "ripple") =>
       /\ Head(timers).id \notin Range(ripples')
       /\ \A e \in Range(ripples) \ {Head(timers).id} :
            Count(ripples', e) = Count(ripples, e)
       /\ Range(ripples') \subseteq Range(ripples)
       /\ Head(timers).id \notin Range(ripples) => ripples' = ripples]_vars

\* the timer of one ripple has fired and the token of another is still there
C15_Witness ==
  /\ ripples # <<>>
  /\ \E r \in RingIds :
       /\ rings[r].pc = "done"
       /\ \A i \in TimerIds : timers[i].kind = "ripple" => timers[i].ring # r
  /\ \E r \in RingIds : TokenPresent(r)

\* C16: the gain is min(0.3 + 0.7 * intensity, 1.0): within [0.3, 1.0] for
\* every intensity in [0, 1], non-decreasing, 0.3 at 0 and 1.0 at 1.
C16_GainRange ==
  /\ \A i \in 0..ShakeNorm :
       /\ 3 * ShakeNorm <= Volume(i) /\ Volume(i) <= 10 * ShakeNorm
       /\ i < ShakeNorm => Volume(i) <= Volume(i + 1)
  /\ Volume(0) = 3 * ShakeNorm
  /\ Volume(ShakeNorm) = 10 * ShakeNorm
  /\ \A i \in 1..Len(started) :
       /\ started[i].volume =
            Min(3 * ShakeNorm + 7 * rings[started[i].ring].intensity,
                10 * ShakeNorm)
       /\ started[i].volume >= 3 * ShakeNorm
       /\ started[i].volume <= 10 * ShakeNorm

\* a shake of intensity 1 plays at gain 1.0 and a tap at gain 0.79
C16_Witness ==
  \E i \in 1..Len(started), j \in 1..Len(started) :
    /\ rings[started[i].ring].intensity = ShakeNorm
    /\ started[i].volume = 10 * ShakeNorm
    /\ rings[started[j].ring].src = "tap"
    /\ started[j].volume = 3 * ShakeNorm + 7 * TapIntensity

\* C17: with every sample carrying the same reading the callback never
\* fires: neither on the first sample, handled with lastX, lastY, lastZ and
\* lastShakeTime still 0, nor on a sample equal to the one before.
C17_NoFireAtRest ==
  [][\A s \in Samples :
       ( /\ listeners > 0
         /\ Motion(s)
         /\ \/ lastX = 0 /\ lastY = 0 /\ lastZ = 0 /\ lastShakeTime = 0
            \/ lastX = OrZero(s[1]) /\ lastY = OrZero(s[2])
                 /\ lastZ = OrZero(s[3]) )
       => ~RingArrives]_vars

\* C18: the ripple tokens of two triggers have distinct ids, also when the
\* two triggers resume in the same millisecond after waiting on the audio
\* initialisation (stated for triggers that arrived at different times).
C18_RippleIdsDistinct ==
  \A i \in TimerIds, j \in TimerIds :
    ( /\ i # j
      /\ timers[i].kind = "ripple" /\ timers[j].kind = "ripple"
      /\ rings[timers[i].ring].at # rings[timers[j].ring].at )
    => timers[i].id # timers[j].id

\* C19: the bell element carries at most one of the four swing classes.
C19_AtMostOneSwingClass ==
  /\ Cardinality(swing \cap SwingClasses) <= 1
  /\ swing \subseteq SwingClasses

\* a second trigger has replaced the class of a first one whose timer is
\* still pending
C19_Witness ==
  /\ swing = {"swing-intense"}
  /\ \E i \in TimerIds, j \in TimerIds :
       /\ i < j
       /\ timers[i].kind = "swing" /\ timers[i].class = "swing-heavy"
       /\ timers[j].kind = "swing" /\ timers[j].class = "swing-intense"

====
